---- MODULE Spec2Model ----
(***************************************************************************)
(* Model of src/tools/yaml-path-finder/yaml-path-finder.vue: the YAML path *)
(* finder.  JavaScript strings are TLA+ strings (Len, SubSeq and \o act on *)
(* their characters); JavaScript values are tagged records.                *)
(***************************************************************************)
EXTENDS Integers, Sequences, FiniteSets, TLC

VARIABLES
  parsedYaml,   \* ref: the Document Tree
  keys,         \* ref: the Key Index
  search,       \* ref: the query field
  comparison,   \* ref: the comparison field
  yamlInput,    \* ref: the document text field
  console,      \* number of console.error calls so far
  uncaught,     \* TRUE once an exception has escaped a handler
  handler       \* the handler that ran last

vars == <<parsedYaml, keys, search, comparison, yamlInput, console, uncaught, handler>>

(***************************************************************************)
(* Bounds of the model.                                                    *)
(***************************************************************************)
\* Documents of the resolver specification have at most MaxNodes nodes.
MaxNodes == 3
\* console.error is called at most MaxLog times in a behaviour.
MaxLog == 2

(***************************************************************************)
(* JavaScript values, as YAML.parse returns them.                          *)
(***************************************************************************)
Str(s) == [t |-> "string", s |-> s]
Num(n) == [t |-> "number", n |-> n]
Bool(b) == [t |-> "boolean", b |-> b]
Null == [t |-> "null"]
Undefined == [t |-> "undefined"]
\* An object: its own enumerable properties, in for-in order.
Map(entries) == [t |-> "map", e |-> entries]
\* An array.
Arr(items) == [t |-> "seq", e |-> items]

Range(f) == {f[i] : i \in DOMAIN f}

\* The scalar leaves of the generated documents: a truthy string, a falsy
\* number and null (for which typeof is 'object').
Scalars == {Str("v"), Num(0), Null}

\* The mapping keys of the bounded documents; YAML allows "." in a key.
KeyNames == {"a", "b", "a.b"}

RECURSIVE TreesOfSize(_)
RECURSIVE ForestsOfSize(_, _)
\* The sequences of k trees with n nodes in all.
ForestsOfSize(k, n) ==
  IF k = 0 THEN (IF n = 0 THEN {<<>>} ELSE {})
  ELSE UNION {{<<tr>> \o f : tr \in TreesOfSize(m), f \in ForestsOfSize(k - 1, n - m)} :
              m \in 1..(n - (k - 1))}

\* The orderings of k distinct keys.
KeyLists(k) == {ks \in [1..k -> KeyNames] : \A i, j \in 1..k : i # j => ks[i] # ks[j]}

\* The values with exactly n nodes (a node is a scalar, an object or an array).
TreesOfSize(n) ==
  IF n < 1 THEN {}
  ELSE (IF n = 1 THEN Scalars ELSE {})
       \cup UNION {{Arr(f) : f \in ForestsOfSize(k, n - 1)} : k \in 0..(n - 1)}
       \cup UNION {{Map([i \in 1..k |-> <<ks[i], f[i]>>]) :
                      ks \in KeyLists(k), f \in ForestsOfSize(k, n - 1)} :
                   k \in 0..(n - 1)}

Trees(n) == UNION {TreesOfSize(m) : m \in 1..n}

(***************************************************************************)
(* getDeepKeys                                                             *)
(***************************************************************************)
\* A type test that takes arrays for leaves.
TypeofObject_notArray(x) == x.t \in {"map", "null"}

\* typeof x === 'object': objects, arrays and null.
TypeofObject(x) == x.t \in {"map", "seq", "null"}

\* The keys `for (const key in obj)` visits, in order: an object's own keys,
\* an array's indices, a string's character indices; nothing otherwise.
ForInKeys(obj) ==
  CASE obj.t = "map" -> [i \in 1..Len(obj.e) |-> obj.e[i][1]]
    [] obj.t = "seq" -> [i \in 1..Len(obj.e) |-> ToString(i - 1)]
    [] obj.t = "string" -> [i \in 1..Len(obj.s) |-> ToString(i - 1)]
    [] OTHER -> <<>>

\* obj[key] for a key that ForInKeys(obj) lists at position i.
ForInValue(obj, i) ==
  CASE obj.t = "map" -> obj.e[i][2]
    [] obj.t = "seq" -> obj.e[i]
    [] OTHER -> Str(SubSeq(obj.s, i, i))

RECURSIVE getDeepKeys(_)
RECURSIVE getDeepKeysFrom(_, _)
\* getDeepKeys that drops the sub-keys instead of concatenating them.
getDeepKeysFrom_flat(obj, i) ==
  IF i > Len(ForInKeys(obj)) THEN <<>>
  ELSE <<ForInKeys(obj)[i]>> \o getDeepKeysFrom(obj, i + 1)

\* The loop of getDeepKeys from its i-th iteration on.
getDeepKeysFrom(obj, i) ==
  IF i > Len(ForInKeys(obj)) THEN <<>>
  ELSE LET key == ForInKeys(obj)[i]
           val == ForInValue(obj, i)
           subkeys == IF TypeofObject(val) THEN getDeepKeys(val) ELSE <<>>
       IN <<key>> \o [j \in 1..Len(subkeys) |-> key \o "." \o subkeys[j]]
          \o getDeepKeysFrom(obj, i + 1)

getDeepKeys(obj) == getDeepKeysFrom(obj, 1)

(***************************************************************************)
(* String helpers: String.prototype.split('.'), Array.prototype.join('.'), *)
(* startsWith, endsWith, trim.                                             *)
(***************************************************************************)
CharAt(s, i) == SubSeq(s, i, i)

RECURSIVE split(_)
split(s) ==
  IF \E i \in 1..Len(s) : CharAt(s, i) = "."
  THEN LET i == CHOOSE k \in 1..Len(s) :
                  CharAt(s, k) = "." /\ \A m \in 1..(k - 1) : CharAt(s, m) # "."
       IN <<SubSeq(s, 1, i - 1)>> \o split(SubSeq(s, i + 1, Len(s)))
  ELSE <<s>>

RECURSIVE join(_)
join(parts) ==
  IF Len(parts) = 0 THEN ""
  ELSE IF Len(parts) = 1 THEN parts[1]
  ELSE parts[1] \o "." \o join(Tail(parts))

startsWith(key, value) ==
  Len(value) <= Len(key) /\ SubSeq(key, 1, Len(value)) = value

endsWith(key, value) ==
  Len(value) <= Len(key) /\ SubSeq(key, Len(key) - Len(value) + 1, Len(key)) = value

IsSpace(c) == c \in {" ", "\n"}

RECURSIVE trim(_)
trim(s) ==
  IF Len(s) > 0 /\ IsSpace(CharAt(s, 1)) THEN trim(SubSeq(s, 2, Len(s)))
  ELSE IF Len(s) > 0 /\ IsSpace(CharAt(s, Len(s))) THEN trim(SubSeq(s, 1, Len(s) - 1))
  ELSE s

(***************************************************************************)
(* underscore's propertyOf(obj)(path), JavaScript truthiness and           *)
(* JSON.stringify(value, null, 2).                                         *)
(***************************************************************************)
\* obj[name] of a value that is neither null nor undefined.  Own properties,
\* array and string indices and `length`; inherited methods are not modelled.
Prop(obj, name) ==
  CASE obj.t = "map" ->
         IF \E i \in 1..Len(obj.e) : obj.e[i][1] = name
         THEN obj.e[CHOOSE i \in 1..Len(obj.e) : obj.e[i][1] = name][2]
         ELSE Undefined
    [] obj.t = "seq" ->
         IF name = "length" THEN Num(Len(obj.e))
         ELSE IF \E i \in 1..Len(obj.e) : ToString(i - 1) = name
         THEN obj.e[CHOOSE i \in 1..Len(obj.e) : ToString(i - 1) = name]
         ELSE Undefined
    [] obj.t = "string" ->
         IF name = "length" THEN Num(Len(obj.s))
         ELSE IF \E i \in 1..Len(obj.s) : ToString(i - 1) = name
         THEN Str(CharAt(obj.s, CHOOSE i \in 1..Len(obj.s) : ToString(i - 1) = name))
         ELSE Undefined
    [] OTHER -> Undefined

IsNullish(x) == x.t \in {"null", "undefined"}

RECURSIVE deepGet(_, _)
deepGet(obj, path) ==
  IF Len(path) = 0 THEN obj
  ELSE IF IsNullish(obj) THEN Undefined
  ELSE deepGet(Prop(obj, Head(path)), Tail(path))

propertyOf(obj, path) ==
  IF IsNullish(obj) THEN Undefined
  ELSE IF Len(path) = 0 THEN Undefined
  ELSE deepGet(obj, path)

Truthy(x) ==
  CASE x.t = "string" -> x.s # ""
    [] x.t = "number" -> x.n # 0
    [] x.t = "boolean" -> x.b
    [] x.t \in {"null", "undefined"} -> FALSE
    [] OTHER -> TRUE

RECURSIVE stringify(_, _)
RECURSIVE stringifyItems(_, _, _, _)
\* The members of an array (isMap = FALSE) or object from the i-th on, one per
\* line at indentation `indent`.
stringifyItems(x, i, indent, isMap) ==
  LET item == IF isMap
              THEN "\"" \o x.e[i][1] \o "\": " \o stringify(x.e[i][2], indent)
              ELSE stringify(x.e[i], indent)
  IN indent \o item \o
     (IF i < Len(x.e) THEN ",\n" \o stringifyItems(x, i + 1, indent, isMap) ELSE "\n")

\* JSON.stringify(x, null, 2) of a value nested at indentation `indent`.
stringify(x, indent) ==
  CASE x.t = "string" -> "\"" \o x.s \o "\""
    [] x.t = "number" -> ToString(x.n)
    [] x.t = "boolean" -> (IF x.b THEN "true" ELSE "false")
    [] x.t = "null" -> "null"
    [] x.t = "seq" ->
         IF Len(x.e) = 0 THEN "[]"
         ELSE "[\n" \o stringifyItems(x, 1, indent \o "  ", FALSE) \o indent \o "]"
    [] x.t = "map" ->
         IF Len(x.e) = 0 THEN "{}"
         ELSE "{\n" \o stringifyItems(x, 1, indent \o "  ", TRUE) \o indent \o "}"

JSONstringify(x) == stringify(x, "")

(***************************************************************************)
(* The document text and YAML.parse.  Texts are YAML source; the bounded   *)
(* documents are written in flow style.                                    *)
(***************************************************************************)
\* The sample document's scalar stands for the waving-hand emoji.
defaultYaml ==
  "hello:\n  from:\n    your:\n      favourite:\n        yaml:\n          tool: (wave)\n"

\* What YAML.parse returns for defaultYaml.
SampleTree ==
  Map(<< <<"hello", Map(<< <<"from", Map(<< <<"your", Map(<< <<"favourite",
    Map(<< <<"yaml", Map(<< <<"tool", Str("(wave)")>> >>)>> >>)>> >>)>> >>)>> >>)>> >>)

RECURSIVE toYaml(_)
RECURSIVE toYamlItems(_, _)
toYamlItems(x, i) ==
  LET item == IF x.t = "map"
              THEN (IF x.e[i][1] = "" THEN "\"\"" ELSE x.e[i][1]) \o ": " \o toYaml(x.e[i][2])
              ELSE toYaml(x.e[i])
  IN item \o (IF i < Len(x.e) THEN ", " \o toYamlItems(x, i + 1) ELSE "")

\* The flow-style YAML text of a value.
toYaml(x) ==
  CASE x.t = "string" -> (IF x.s = "" THEN "''" ELSE x.s)
    [] x.t = "number" -> ToString(x.n)
    [] x.t = "boolean" -> (IF x.b THEN "true" ELSE "false")
    [] x.t = "null" -> "null"
    [] x.t = "seq" -> "[" \o (IF Len(x.e) = 0 THEN "" ELSE toYamlItems(x, 1)) \o "]"
    [] x.t = "map" -> "{" \o (IF Len(x.e) = 0 THEN "" ELSE toYamlItems(x, 1)) \o "}"

\* A key repeated by two spellings, a sequence of mappings, a falsy leaf,
\* an empty key.
DottedDoc == Map(<< <<"a", Map(<< <<"b", Str("v")>> >>)>>, <<"a.b", Str("")>> >>)
ListDoc == Map(<< <<"a", Arr(<< Map(<< <<"b", Num(0)>> >>) >>)>> >>)
PlainDoc == Map(<< <<"a", Str("v")>>, <<"b", Bool(FALSE)>> >>)
EmptyKeyDoc == Map(<< <<"", Str("v")>> >>)

\* The documents a user commits in the interactive specification.
SampleDocuments == {DottedDoc, ListDoc, PlainDoc}

\* The documents of the resolver specification.
Documents == Trees(MaxNodes) \cup SampleDocuments \cup {SampleTree, EmptyKeyDoc}

\* Texts the YAML library rejects: an unclosed flow mapping, a repeated key,
\* a badly indented block mapping.
MalformedTexts == {"{a: v", "{a: v, a: v}", "a: v\n b: v"}

\* The texts a user leaves in the document field.
Texts ==
  {"", " ", defaultYaml} \cup MalformedTexts \cup {toYaml(d) : d \in SampleDocuments}

FlowTexts == {toYaml(d) : d \in Documents}

\* The first position from i on whose character is in `stops`; Len(s) + 1 if none.
RECURSIVE ScanTo(_, _, _)
ScanTo(s, i, stops) ==
  IF i > Len(s) \/ CharAt(s, i) \in stops THEN i ELSE ScanTo(s, i + 1, stops)

ParseError == [ok |-> FALSE, value |-> Undefined, next |-> 0]

\* The value of a plain or quoted flow scalar.
FlowScalar(word) ==
  IF word = "''" THEN Str("")
  ELSE IF word = "null" THEN Null
  ELSE IF word \in {"true", "false"} THEN Bool(word = "true")
  ELSE IF \E n \in 0..9 : ToString(n) = word
  THEN Num(CHOOSE n \in 0..9 : ToString(n) = word)
  ELSE Str(word)

\* A flow-style node starting at position i of s: [ok, value, next], where
\* next is the position after the node.
RECURSIVE FlowNode(_, _)
RECURSIVE FlowItems(_, _, _, _)
\* The members of a flow collection from position i on, after the members
\* `acc`, up to the closing bracket `close`.
FlowItems(s, i, close, acc) ==
  LET isMap == close = "}"
      colon == ScanTo(s, i, {":", ",", "}", "]"})
      word == SubSeq(s, i, colon - 1)
      key == IF word = "\"\"" THEN "" ELSE word
      keyOk == /\ colon + 1 <= Len(s)
               /\ SubSeq(s, colon, colon + 1) = ": "
               /\ word # ""
               /\ \A k \in 1..Len(acc) : acc[k][1] # key
      node == FlowNode(s, IF isMap THEN colon + 2 ELSE i)
      item == IF isMap THEN <<key, node.value>> ELSE node.value
  IN IF isMap /\ ~keyOk THEN ParseError
     ELSE IF ~node.ok \/ node.next > Len(s) THEN ParseError
     ELSE IF CharAt(s, node.next) = close
     THEN [ok |-> TRUE,
           value |-> IF isMap THEN Map(acc \o <<item>>) ELSE Arr(acc \o <<item>>),
           next |-> node.next + 1]
     ELSE IF node.next + 1 <= Len(s) /\ SubSeq(s, node.next, node.next + 1) = ", "
     THEN FlowItems(s, node.next + 2, close, acc \o <<item>>)
     ELSE ParseError

FlowNode(s, i) ==
  IF i > Len(s) THEN ParseError
  ELSE IF CharAt(s, i) \in {"{", "["}
  THEN LET close == IF CharAt(s, i) = "{" THEN "}" ELSE "]"
       IN IF i + 1 <= Len(s) /\ CharAt(s, i + 1) = close
          THEN [ok |-> TRUE,
                value |-> IF close = "}" THEN Map(<<>>) ELSE Arr(<<>>),
                next |-> i + 2]
          ELSE FlowItems(s, i + 1, close, <<>>)
  ELSE LET end == ScanTo(s, i, {",", "}", "]", ":"})
       IN IF end = i THEN ParseError
          ELSE [ok |-> TRUE, value |-> FlowScalar(SubSeq(s, i, end - 1)), next |-> end]

\* Block-style texts the YAML library rejects (bad indentation).
MalformedBlockTexts == {"a: v\n b: v"}

\* YAML.parse(text): [ok |-> TRUE, value |-> v], or [ok |-> FALSE] when it
\* throws.  Block style is read for the sample text only.
YAMLparse(text) ==
  IF text \in MalformedBlockTexts THEN [ok |-> FALSE, value |-> Undefined]
  ELSE IF trim(text) = "" THEN [ok |-> TRUE, value |-> Null]
  ELSE IF trim(text) = trim(defaultYaml) THEN [ok |-> TRUE, value |-> SampleTree]
  ELSE LET node == FlowNode(trim(text), 1)
       IN IF node.ok /\ node.next = Len(trim(text)) + 1
          THEN [ok |-> TRUE, value |-> node.value]
          ELSE [ok |-> FALSE, value |-> Undefined]

parsedDefaultYaml == YAMLparse(trim(defaultYaml)).value

(***************************************************************************)
(* The Path Resolver.                                                      *)
(***************************************************************************)
\* exactMatch that takes every defined value for found, falsy ones too.
exactMatch_defined(parts) ==
  LET foundValue == propertyOf(parsedYaml, parts)
  IN IF foundValue # Undefined
     THEN [path |-> join(parts), value |-> JSONstringify(foundValue)]
     ELSE Null

\* exactMatch that finds scalar leaves only.
exactMatch_leafOnly(parts) ==
  LET foundValue == propertyOf(parsedYaml, parts)
  IN IF Truthy(foundValue) /\ foundValue.t \notin {"map", "seq"}
     THEN [path |-> join(parts), value |-> JSONstringify(foundValue)]
     ELSE Null

exactMatch(parts) ==
  LET foundValue == propertyOf(parsedYaml, parts)
  IN IF Truthy(foundValue)
     THEN [path |-> join(parts), value |-> JSONstringify(foundValue)]
     ELSE Null

prefixMatch(value) ==
  LET foundKeys == SelectSeq(keys, LAMBDA key : startsWith(key, value))
  IN IF Len(foundKeys) = 0 THEN Null
     ELSE [count |-> Len(foundKeys), keys |-> foundKeys]

\* suffixMatch that keeps the first matching key only.
suffixMatch_firstOnly(value) ==
  LET foundKeys == SelectSeq(keys, LAMBDA key : endsWith(key, value))
  IN IF Len(foundKeys) = 0 THEN Null
     ELSE [count |-> 1, keys |-> <<foundKeys[1]>>]

suffixMatch(value) ==
  LET foundKeys == SelectSeq(keys, LAMBDA key : endsWith(key, value))
  IN IF Len(foundKeys) = 0 THEN Null
     ELSE [count |-> Len(foundKeys), keys |-> foundKeys]

\* searchResult that consults the suffix tier before the exact tier.
searchResult_suffixFirst ==
  IF search = "" THEN Null
  ELSE LET exact == exactMatch(split(search))
           suffix == suffixMatch(search)
           prefix == prefixMatch(search)
       IN IF suffix # Null
          THEN [type |-> "suffix", count |-> suffix.count, keys |-> suffix.keys]
          ELSE IF exact # Null
          THEN [type |-> "exact", path |-> exact.path, value |-> exact.value]
          ELSE IF prefix # Null
          THEN [type |-> "prefix", count |-> prefix.count, keys |-> prefix.keys]
          ELSE [type |-> "none"]

\* The computed Search Result; Null when the query is empty.
searchResult ==
  IF search = "" THEN Null
  ELSE LET exact == exactMatch(split(search))
           suffix == suffixMatch(search)
           prefix == prefixMatch(search)
       IN IF exact # Null
          THEN [type |-> "exact", path |-> exact.path, value |-> exact.value]
          ELSE IF suffix # Null
          THEN [type |-> "suffix", count |-> suffix.count, keys |-> suffix.keys]
          ELSE IF prefix # Null
          THEN [type |-> "prefix", count |-> prefix.count, keys |-> prefix.keys]
          ELSE [type |-> "none"]

(***************************************************************************)
(* The Diff Renderer: diffChars of the diff package (a longest-common-     *)
(* subsequence edit script, removals before additions) and                 *)
(* renderComparison.  The HTML is a sequence of spans.                     *)
(***************************************************************************)
Max(x, y) == IF x >= y THEN x ELSE y

\* Row i of the table, from column j on: entry [j] is the length of a longest
\* common subsequence of a[i..] and b[j..]; `below` is row i + 1.
RECURSIVE LcsRowFrom(_, _, _, _, _)
LcsRowFrom(a, b, i, below, j) ==
  IF j = Len(b) + 1 THEN <<0>>
  ELSE LET rest == LcsRowFrom(a, b, i, below, j + 1)
       IN <<IF CharAt(a, i) = CharAt(b, j) THEN below[j + 1] + 1
            ELSE Max(below[j], rest[1])>> \o rest

\* Rows i .. Len(a) + 1 of the table.
RECURSIVE LcsRows(_, _, _)
LcsRows(a, b, i) ==
  IF i = Len(a) + 1 THEN <<[j \in 1..(Len(b) + 1) |-> 0]>>
  ELSE LET rest == LcsRows(a, b, i + 1)
       IN <<LcsRowFrom(a, b, i, rest[1], 1)>> \o rest

Change(added, removed, value) == [added |-> added, removed |-> removed, value |-> value]

\* The edit script from a[i..] to b[j..], one character per change.
RECURSIVE EditScript(_, _, _, _, _)
EditScript(a, b, L, i, j) ==
  IF i > Len(a) /\ j > Len(b) THEN <<>>
  ELSE IF i <= Len(a) /\ j <= Len(b) /\ CharAt(a, i) = CharAt(b, j)
  THEN <<Change(FALSE, FALSE, CharAt(a, i))>> \o EditScript(a, b, L, i + 1, j + 1)
  ELSE IF i <= Len(a) /\ (j > Len(b) \/ L[i + 1][j] >= L[i][j + 1])
  THEN <<Change(FALSE, TRUE, CharAt(a, i))>> \o EditScript(a, b, L, i + 1, j)
  ELSE <<Change(TRUE, FALSE, CharAt(b, j))>> \o EditScript(a, b, L, i, j + 1)

\* Adjacent changes of one kind become one change.
RECURSIVE MergeChanges(_)
MergeChanges(cs) ==
  IF Len(cs) <= 1 THEN cs
  ELSE LET rest == MergeChanges(Tail(cs))
           c == cs[1]
       IN IF c.added = rest[1].added /\ c.removed = rest[1].removed
          THEN <<Change(c.added, c.removed, c.value \o rest[1].value)>> \o Tail(rest)
          ELSE <<c>> \o rest

diffChars(a, b) == MergeChanges(EditScript(a, b, LcsRows(a, b, 1), 1, 1))

Span(class, text) == [class |-> class, text |-> text]

MatchHtml == <<Span("text-success", "Values match! (tada)")>>

renderComparison(foundValue) ==
  IF foundValue = comparison THEN MatchHtml
  ELSE LET changes == diffChars(foundValue, comparison)
       IN [i \in 1..Len(changes) |->
             IF changes[i].removed THEN Span("text-error", changes[i].value)
             ELSE IF changes[i].added THEN Span("text-success", changes[i].value)
             ELSE Span("", changes[i].value)]

\* A template that hands the found value's text to renderComparison.
comparisonHtml_value ==
  IF searchResult # Null /\ searchResult.type = "exact"
  THEN renderComparison(searchResult.value)
  ELSE Null

\* The template's comparison area: present only in the exact-match card.
comparisonHtml ==
  IF searchResult # Null /\ searchResult.type = "exact"
  THEN renderComparison(searchResult.path)
  ELSE Null

(***************************************************************************)
(* User inputs.                                                            *)
(***************************************************************************)
\* Queries typed into the search field, besides entries of the Key Index.
Queries ==
  {"", "a", "b", "a.b", "b.a", "a.0", "0", "a.", "ab", "a.length",
   "hello", "tool", "zzz", "hel"}

\* The resolver specification tries these and every entry of the Key Index.
SearchInputs == Queries \cup Range(keys)

\* Queries typed in the interactive specification.
TypedQueries == {"", "a", "a.b", "a.0.b", "b", "tool", "zzz"}

\* Strings typed into the comparison field, besides the found path.
Comparisons == {"", "a.b", "\"v\"", "hel"}

ComparisonInputs ==
  Comparisons \cup (IF searchResult # Null /\ searchResult.type = "exact"
                    THEN {searchResult.path} ELSE {})

(***************************************************************************)
(* The component: setup and event handlers.                                *)
(***************************************************************************)
Init ==
  /\ parsedYaml = parsedDefaultYaml
  /\ keys = getDeepKeys(parsedDefaultYaml)
  /\ search = ""
  /\ comparison = ""
  /\ yamlInput = defaultYaml
  /\ console = 0
  /\ uncaught = FALSE
  /\ handler = "setup"

\* v-model:value="yamlInput": every edit of the document field.
editYaml(text) ==
  /\ yamlInput' = text
  /\ handler' = "yamlInput"
  /\ UNCHANGED <<parsedYaml, keys, search, comparison, console, uncaught>>

\* updateYaml with a catch block that also resets the document.
updateYaml_clearOnError ==
  /\ handler' = "updateYaml"
  /\ IF yamlInput # ""
     THEN LET loaded == YAMLparse(yamlInput)
          IN IF loaded.ok
             THEN /\ parsedYaml' = loaded.value
                  /\ keys' = getDeepKeys(loaded.value)
                  /\ UNCHANGED <<console, uncaught>>
             ELSE /\ console < MaxLog
                  /\ console' = console + 1
                  /\ parsedYaml' = Null
                  /\ keys' = <<>>
                  /\ UNCHANGED uncaught
     ELSE UNCHANGED <<parsedYaml, keys, console, uncaught>>
  /\ UNCHANGED <<search, comparison, yamlInput>>

\* updateYaml that replaces the tree and forgets to rebuild the index.
updateYaml_staleKeys ==
  /\ handler' = "updateYaml"
  /\ IF yamlInput # ""
     THEN LET loaded == YAMLparse(yamlInput)
          IN IF loaded.ok
             THEN /\ parsedYaml' = loaded.value
                  /\ UNCHANGED <<keys, console, uncaught>>
             ELSE /\ console < MaxLog
                  /\ console' = console + 1
                  /\ UNCHANGED <<parsedYaml, keys, uncaught>>
     ELSE UNCHANGED <<parsedYaml, keys, console, uncaught>>
  /\ UNCHANGED <<search, comparison, yamlInput>>

\* updateYaml without the `if (yamlInput.value)` guard.
updateYaml_noGuard ==
  /\ handler' = "updateYaml"
  /\ LET loaded == YAMLparse(yamlInput)
     IN IF loaded.ok
        THEN /\ parsedYaml' = loaded.value
             /\ keys' = getDeepKeys(loaded.value)
             /\ UNCHANGED <<console, uncaught>>
        ELSE /\ console < MaxLog
             /\ console' = console + 1
             /\ UNCHANGED <<parsedYaml, keys, uncaught>>
  /\ UNCHANGED <<search, comparison, yamlInput>>

\* @blur="updateYaml".
updateYaml ==
  /\ handler' = "updateYaml"
  /\ IF yamlInput # ""
     THEN LET loaded == YAMLparse(yamlInput)
          IN IF loaded.ok
             THEN /\ parsedYaml' = loaded.value
                  /\ keys' = getDeepKeys(loaded.value)
                  /\ UNCHANGED <<console, uncaught>>
             ELSE /\ console < MaxLog
                  /\ console' = console + 1
                  /\ UNCHANGED <<parsedYaml, keys, uncaught>>
     ELSE UNCHANGED <<parsedYaml, keys, console, uncaught>>
  /\ UNCHANGED <<search, comparison, yamlInput>>

\* v-model:value="search": every edit of the query field.
editSearch(q) ==
  /\ search' = q
  /\ handler' = "search"
  /\ UNCHANGED <<parsedYaml, keys, comparison, yamlInput, console, uncaught>>

\* v-model:value="comparison": the field exists only in the exact-match card.
editComparison(c) ==
  /\ searchResult # Null /\ searchResult.type = "exact"
  /\ comparison' = c
  /\ handler' = "comparison"
  /\ UNCHANGED <<parsedYaml, keys, search, yamlInput, console, uncaught>>

Next ==
  \/ \E text \in Texts : editYaml(text)
  \/ updateYaml
  \/ \E q \in TypedQueries : editSearch(q)
  \/ \E c \in ComparisonInputs : editComparison(c)

Spec == Init /\ [][Next]_vars

(***************************************************************************)
(* The resolver specification: after startup the text of any bounded       *)
(* document stands in the document field; it is committed and queries are  *)
(* typed.                                                                  *)
(***************************************************************************)
InitResolve ==
  /\ parsedYaml = parsedDefaultYaml
  /\ keys = getDeepKeys(parsedDefaultYaml)
  /\ search = ""
  /\ comparison = ""
  /\ yamlInput \in FlowTexts
  /\ console = 0
  /\ uncaught = FALSE
  /\ handler = "yamlInput"

NextResolve ==
  \/ updateYaml
  \/ \E q \in SearchInputs : editSearch(q)

SpecResolve == InitResolve /\ [][NextResolve]_vars

(***************************************************************************)
(* Vocabulary of the properties.                                           *)
(***************************************************************************)
HasDot(s) == \E i \in 1..Len(s) : CharAt(s, i) = "."

\* No mapping key anywhere in x contains a ".".
RECURSIVE NoDottedKeys(_)
NoDottedKeys(x) ==
  CASE x.t = "map" ->
         \A i \in 1..Len(x.e) : ~HasDot(x.e[i][1]) /\ NoDottedKeys(x.e[i][2])
    [] x.t = "seq" -> \A i \in 1..Len(x.e) : NoDottedKeys(x.e[i])
    [] OTHER -> TRUE

\* The nodes the traversal of getDeepKeys stands on, in the order it emits
\* their paths: for each, the keys leading to it and the value there.
RECURSIVE IndexedEntries(_)
RECURSIVE IndexedEntriesFrom(_, _)
IndexedEntriesFrom(obj, i) ==
  IF i > Len(ForInKeys(obj)) THEN <<>>
  ELSE LET key == ForInKeys(obj)[i]
           val == ForInValue(obj, i)
           sub == IF val.t \in {"map", "seq"} THEN IndexedEntries(val) ELSE <<>>
       IN <<[parts |-> <<key>>, value |-> val]>>
          \o [j \in 1..Len(sub) |-> [parts |-> <<key>> \o sub[j].parts, value |-> sub[j].value]]
          \o IndexedEntriesFrom(obj, i + 1)

IndexedEntries(obj) == IndexedEntriesFrom(obj, 1)

\* The dotted paths reachable from x through mappings alone.
RECURSIVE MappingPaths(_)
MappingPaths(x) ==
  IF x.t # "map" THEN {}
  ELSE UNION {{x.e[i][1]} \cup {x.e[i][1] \o "." \o sub : sub \in MappingPaths(x.e[i][2])} :
              i \in 1..Len(x.e)}

Front(seq) == SubSeq(seq, 1, Len(seq) - 1)

IsExact == searchResult # Null /\ searchResult.type = "exact"

\* The positions of the Key Index whose entry satisfies Test, and the entries
\* there in Key Index order.
MatchingPositions(Test(_)) == {i \in DOMAIN keys : Test(keys[i])}

InIndexOrder(found, positions) ==
  /\ Len(found) = Cardinality(positions)
  /\ \A k \in 1..Len(found) :
       found[k] = keys[CHOOSE i \in positions : Cardinality({j \in positions : j < i}) = k - 1]

\* The text of the spans whose class is in `classes`, concatenated.
RECURSIVE SpanText(_, _)
SpanText(html, classes) ==
  IF Len(html) = 0 THEN ""
  ELSE (IF html[1].class \in classes THEN html[1].text ELSE "") \o SpanText(Tail(html), classes)

ParseFails(text) == text # "" /\ ~YAMLparse(text).ok

(***************************************************************************)
(* Properties of the event handlers (specification Spec).                  *)
(***************************************************************************)
\* C1: a commit (updateYaml) of a text that fails to parse leaves parsedYaml
\* and keys as they were, logs one diagnostic, and lets no exception escape;
\* as this holds of every such step, any run of failed commits keeps the tree
\* and index of the last successful parse.
C1_FailedCommitKeepsState ==
  [][(handler' = "updateYaml" /\ ParseFails(yamlInput))
       => /\ parsedYaml' = parsedYaml
          /\ keys' = keys
          /\ console' = console + 1
          /\ ~uncaught']_vars

\* Two failed commits have followed the successful commit of another document.
C1_Witness ==
  /\ handler = "updateYaml"
  /\ ParseFails(yamlInput)
  /\ console = 2
  /\ parsedYaml = DottedDoc
  /\ keys = getDeepKeys(DottedDoc)
  /\ ~uncaught

C10_EmptyCommitIsNoOp ==
  [][(handler' = "updateYaml" /\ yamlInput = "")
       => /\ UNCHANGED <<parsedYaml, keys, console, uncaught>>
          /\ searchResult' = searchResult]_vars

\* The empty text was committed while a document and a Search Result stood.
C10_Witness ==
  /\ handler = "updateYaml"
  /\ yamlInput = ""
  /\ parsedYaml = SampleTree
  /\ keys = getDeepKeys(SampleTree)
  /\ search = "tool"
  /\ console = 0

\* C8 as stated: in the exact-match card the match outcome is shown exactly
\* when the found value's pretty-printed text equals the comparison string.
C8_Original ==
  IsExact => (comparisonHtml = MatchHtml <=> searchResult.value = comparison)

\* C8 amended: the match outcome is shown exactly when the found path equals
\* the comparison string; otherwise the spans are a diff of the path and the
\* comparison string: removed and unchanged spans spell the path, added and
\* unchanged spans spell the comparison string.
C8_ComparesPath ==
  IsExact
    => /\ comparisonHtml = MatchHtml <=> searchResult.path = comparison
       /\ searchResult.path # comparison
            => /\ SpanText(comparisonHtml, {"text-error", ""}) = searchResult.path
               /\ SpanText(comparisonHtml, {"text-success", ""}) = comparison

\* The comparison string is the found value's text and differs from the path.
C8_Witness ==
  /\ parsedYaml = PlainDoc
  /\ search = "a"
  /\ IsExact
  /\ comparison = searchResult.value
  /\ comparison # searchResult.path
  /\ comparisonHtml # MatchHtml

(***************************************************************************)
(* Properties of the resolver and the indexer (specification SpecResolve). *)
(***************************************************************************)
FoundValue == propertyOf(parsedYaml, split(search))

\* C2: whenever walking the query's segments from the root yields a truthy
\* value, the Search Result is Exact with the query as path and the found
\* value pretty-printed, whatever the suffix and prefix filters would match.
C2_ExactTierWins ==
  (search # "" /\ Truthy(FoundValue))
    => /\ IsExact
       /\ searchResult.path = search
       /\ searchResult.value = JSONstringify(FoundValue)

\* An exact match while one entry ends with the query and two begin with it.
C2_Witness ==
  /\ parsedYaml = Map(<< <<"a", Map(<< <<"b", Str("v")>> >>)>> >>)
  /\ search = "a"
  /\ IsExact
  /\ suffixMatch(search).count = 1
  /\ prefixMatch(search).count = 2

\* C3 as stated: every non-empty entry P of the Key Index, used as the query,
\* resolves Exact with path P when the value indexed at P is truthy, and to
\* a suffix, prefix or no match when it is falsy.
C3_Original ==
  LET entries == IndexedEntries(parsedYaml)
  IN \A i \in DOMAIN keys :
       (search = keys[i] /\ search # "")
         => IF Truthy(entries[i].value)
            THEN IsExact /\ searchResult.path = search
            ELSE searchResult.type \in {"suffix", "prefix", "none"}

\* C3 amended: the round trip holds of every non-empty entry none of whose
\* keys contains a ".".
C3_PlainPathRoundTrip ==
  LET entries == IndexedEntries(parsedYaml)
  IN \A i \in DOMAIN keys :
       (/\ search = keys[i]
        /\ search # ""
        /\ \A k \in DOMAIN entries[i].parts : ~HasDot(entries[i].parts[k]))
         => IF Truthy(entries[i].value)
            THEN IsExact /\ searchResult.path = search
            ELSE searchResult.type \in {"suffix", "prefix", "none"}

\* The indexed path of a falsy leaf inside a sequence element is the query.
C3_Witness ==
  /\ parsedYaml = ListDoc
  /\ search = "a.0.b"
  /\ search \in Range(keys)
  /\ searchResult.type = "suffix"

AncestorsListedEarlier ==
  \A i \in DOMAIN keys :
    Len(split(keys[i])) > 1
      => \E j \in 1..(i - 1) : keys[j] = join(Front(split(keys[i])))

ListedOnce ==
  /\ \A i, j \in DOMAIN keys : i # j => keys[i] # keys[j]
  /\ MappingPaths(parsedYaml) \subseteq Range(keys)

\* C4 as stated: the Key Index lists every mapping-reachable path, nothing
\* twice, and the path one segment shorter than a listed path comes earlier.
C4_Original == ListedOnce /\ AncestorsListedEarlier

\* C4 amended: the same, of documents no key of which contains a ".".
C4_PlainKeysIndexedOnce ==
  NoDottedKeys(parsedYaml) => (ListedOnce /\ AncestorsListedEarlier)

\* A committed nested document without dotted keys is indexed.
C4_Witness ==
  /\ handler = "updateYaml"
  /\ parsedYaml = Map(<< <<"b", Map(<< <<"a", Null>> >>)>> >>)
  /\ keys = <<"b", "b.a">>

\* The Key Index spells the indexed nodes: entry i is the keys leading to
\* node i, joined by ".".
KeysSpellEntries ==
  LET entries == IndexedEntries(parsedYaml)
  IN /\ Len(keys) = Len(entries)
     /\ \A i \in DOMAIN keys : keys[i] = join(entries[i].parts)

\* Some indexed node lies strictly below the keys `parts`.
Extended(parts) ==
  \E j \in DOMAIN keys :
    LET other == IndexedEntries(parsedYaml)[j].parts
    IN Len(other) > Len(parts) /\ SubSeq(other, 1, Len(parts)) = parts

\* C5 as stated: a listed key whose value is not a mapping has its own path
\* listed and no listed path below it.
C5_Original ==
  /\ KeysSpellEntries
  /\ \A i \in DOMAIN keys :
       LET entry == IndexedEntries(parsedYaml)[i]
       IN entry.value.t # "map" => ~Extended(entry.parts)

\* C5 amended: a listed key whose value is a scalar has its own path listed
\* and no listed path below it; a mapping and a sequence both contribute the
\* paths below them, a sequence one per element index.
C5_ScalarsAreLeaves ==
  /\ KeysSpellEntries
  /\ \A i \in DOMAIN keys :
       LET entry == IndexedEntries(parsedYaml)[i]
       IN IF entry.value.t \in {"map", "seq"}
          THEN \A k \in Range(ForInKeys(entry.value)) :
                 join(entry.parts \o <<k>>) \in Range(keys)
          ELSE ~Extended(entry.parts)

\* A sequence of mappings is indexed by element and by element field.
C5_Witness ==
  /\ parsedYaml = ListDoc
  /\ keys = <<"a", "a.0", "a.0.b">>

C7_SuffixThenPrefix ==
  (search # "" /\ exactMatch(split(search)) = Null)
    => LET ending == MatchingPositions(LAMBDA key : endsWith(key, search))
           beginning == MatchingPositions(LAMBDA key : startsWith(key, search))
       IN /\ searchResult.type = "suffix" <=> ending # {}
          /\ searchResult.type = "prefix" <=> (ending = {} /\ beginning # {})
          /\ searchResult.type = "none" <=> (ending = {} /\ beginning = {})
          /\ searchResult.type = "suffix"
               => /\ searchResult.count = Cardinality(ending)
                  /\ InIndexOrder(searchResult.keys, ending)
          /\ searchResult.type = "prefix"
               => /\ searchResult.count = Cardinality(beginning)
                  /\ InIndexOrder(searchResult.keys, beginning)
          /\ (parsedYaml = SampleTree /\ search = "tool")
               => searchResult = [type |-> "suffix", count |-> 1,
                                  keys |-> <<"hello.from.your.favourite.yaml.tool">>]
          /\ (parsedYaml = SampleTree /\ search = "zzz")
               => searchResult = [type |-> "none"]

\* Two entries end with the query and the exact tier finds a falsy value.
C7_Witness ==
  /\ parsedYaml = Map(<< <<"a.b", Num(0)>>, <<"b", Num(0)>> >>)
  /\ search = "b"
  /\ searchResult = [type |-> "suffix", count |-> 2, keys |-> <<"a.b", "b">>]
====
